---- MODULE Spec2Model ----
(***************************************************************************)
(* Order / stock / payment transaction engine of the shop backend.         *)
(*                                                                         *)
(* The model follows the application-level code paths that run when the    *)
(* database carries no stored procedures (apps/orders/services.py,         *)
(* _create_order_from_cart_python and the fallback branch of               *)
(* PaymentService.create_payment).  Every service call decorated with      *)
(* @transaction.atomic is one PostgreSQL transaction at the default        *)
(* isolation level READ COMMITTED:                                         *)
(*   - every SQL statement reads the rows committed at the moment the      *)
(*     statement runs (plus the transaction's own writes);                 *)
(*   - an UPDATE takes the row lock and keeps it until commit or rollback; *)
(*     a second transaction updating the same row waits for that lock;     *)
(*   - writes become visible to other transactions at commit, all at once, *)
(*     and disappear all at once when an exception leaves the atomic block.*)
(* Money is counted in the smallest unit of the DecimalField columns       *)
(* (decimal_places=2), so 1 is 0.01.                                       *)
(***************************************************************************)
EXTENDS Integers, Sequences, FiniteSets, TLC

\* ------------------------------------------------------------------ bounds
NumProcs == 2
NumUsers == 2
NumProducts == 2
InitStock == 1
MaxPrice == 2
MaxOrders == 2
MaxTxs == 2
MaxStock == 2

Procs == 1..NumProcs
Users == 1..NumUsers
Products == 1..NumProducts
Prices == 1..MaxPrice
Quantities == 1..InitStock

\* Order.STATUS_CHOICES, Transaction.PAYMENT_METHOD_CHOICES
STATUS_CHOICES == {"Pending", "Processing", "Shipped", "Delivered",
                   "Completed", "Refunded", "Cancelled"}
PAYMENT_METHOD_CHOICES == {"Card", "Cash", "Online", "Bank Transfer"}
\* the values the modelled requests send
StatusInputs == {"Pending", "Cancelled", "Shipped"}
MethodInputs == {"Card", "Cash"}
\* the delivery address the modelled payment requests send (the serializer
\* refuses a request without one)
AddressInputs == {"address"}

NoOrder == [user |-> 0, total_amount |-> 0, status |-> "none", items |-> <<>>,
            delivery_address |-> ""]
NoTx == [order |-> 0, amount |-> 0, payment_method |-> "none", status |-> "none"]
NoCall == [op |-> "none", user |-> 0, order_id |-> 0, amount |-> 0,
           payment_method |-> "none", transaction_id |-> 0,
           delivery_address |-> "", product_id |-> 0, quantity |-> 0,
           item_id |-> 0]
\* what a call returned or raised: the ValueError messages of the services
\* ("EmptyCart", "InvalidCart", "InsufficientStock", "OrderNotFound",
\* "AmountMismatch"), "TransactionNotFound" and "NotRefundable" for the two
\* refusals of a refund, "Error" for any other exception, "created",
\* "Success" and "Refunded" for the normal returns; rolled_back counts the
\* product rows whose update the failing call had issued, errors is what the
\* message of a ValueError names
NoResult == [status |-> "none", order |-> 0, total_amount |-> 0, tx |-> 0,
             rolled_back |-> 0, errors |-> <<>>]
ValueErrors == {"EmptyCart", "InvalidCart", "InsufficientStock",
                "OrderNotFound", "AmountMismatch"}
NoWrites == [x \in {} |-> 0]
NoProduct == [id |-> 0, stock_quantity |-> 0, is_available |-> FALSE]
NoCartItem == [id |-> 0, product |-> 0, quantity |-> 0]

VARIABLES
    stock_quantity,  \* products.stock_quantity, committed
    is_available,    \* products.is_available, committed
    price,           \* products.price, committed
    cart,            \* cart_items rows per user, in the order of Meta.ordering
    orders,          \* committed orders with their order_items, by id
    txs,             \* committed transactions, by id
    pc,              \* position of each request
    call,            \* the arguments of the service call a request runs
    cart_items,      \* local list cart_items of _create_order_from_cart_python
    idx,             \* position of the for loop over cart_items
    order,           \* local object order (uncommitted row of the request)
    total_amount,    \* local total_amount of _create_order_from_cart_python
    wstock,          \* uncommitted products.stock_quantity writes = row locks
    ptx,             \* uncommitted transactions row of create_payment
    product,         \* Product instance a request loaded
    cart_item,       \* CartItem instance a cart request loaded
    result           \* what the last call of the request returned or raised

vars == <<stock_quantity, is_available, price, cart, orders, txs, pc, call,
          cart_items, idx, order, total_amount, wstock, ptx, product, cart_item, result>>

dbvars == <<stock_quantity, is_available, price, cart, orders, txs>>
locvars == <<cart_items, idx, order, total_amount, wstock, ptx, product, cart_item>>

\* ---------------------------------------------------------------- helpers
RECURSIVE SumSeq(_)
SumSeq(s) == IF s = <<>> THEN 0 ELSE Head(s) + SumSeq(Tail(s))

\* OrderItem.get_total_price
get_total_price(item) == item.price_at_purchase * item.quantity

\* the sum of the line totals of an order
LinesTotal(items) == SumSeq([i \in 1..Len(items) |-> get_total_price(items[i])])

\* the quantity of product pr on the lines of an order
LinesQuantity(items, pr) ==
    SumSeq([i \in 1..Len(items) |->
               IF items[i].product = pr THEN items[i].quantity ELSE 0])

CartProducts(u) == {cart[u][i].product : i \in 1..Len(cart[u])}
CartIndex(u, pr) == CHOOSE i \in 1..Len(cart[u]) : cart[u][i].product = pr

\* mutant of can_be_paid: only a Pending order is payable
can_be_paid_PendingOnly(o) == o.status = "Pending"

\* Order.can_be_paid
can_be_paid(o) == o.status \in {"Pending", "Cancelled"}

\* Transaction.can_be_refunded
can_be_refunded(t) == t.status = "Success"

\* mutant of float: the comparison made on whole currency units
float_whole_units(x) == [double |-> x \div 2]

\* float(x) of a money value: the double nearest to x/100.  Amounts and
\* totals have at most 14 significant decimal digits (DecimalField
\* max_digits=14), fewer than the 15 a double always tells apart, so the
\* double is represented by the one money value that maps to it.
float(x) == [double |-> x]

\* ------------------------------------------------------------- row locks
\* the request holding the row lock of product pr (0: nobody)
LockHolder(pr) ==
    IF \E q \in Procs : pr \in DOMAIN wstock[q]
    THEN CHOOSE q \in Procs : pr \in DOMAIN wstock[q]
    ELSE 0

\* the request holding the row lock of order o (0: nobody): create_payment
\* after order.save(update_fields=['status'])
OrderLockHolder(o) ==
    IF \E q \in Procs : pc[q] = "pay_commit" /\ call[q].order_id = o
    THEN CHOOSE q \in Procs : pc[q] = "pay_commit" /\ call[q].order_id = o
    ELSE 0

InOrderCall(p) == call[p].op = "order"
InPayCall(p) == call[p].op = "pay"
InRefundCall(p) == call[p].op = "refund"
OrderCalls == Cardinality({p \in Procs : InOrderCall(p)})
PayCalls == Cardinality({p \in Procs : InPayCall(p)})

\* ----------------------------------------------------------------- Init
\* the catalog the requests start from: every product in stock and
\* available, no two neighbouring products at the same price
InitPrice(pr) == ((pr - 1) % MaxPrice) + 1

\* the first product of the catalog
PaidProduct == CHOOSE pr \in Products : \A x \in Products : pr <= x

Init ==
    /\ stock_quantity = [pr \in Products |-> InitStock]
    /\ is_available = [pr \in Products |-> TRUE]
    /\ price = [pr \in Products |-> InitPrice(pr)]
    /\ cart = [u \in Users |-> <<>>]
    /\ orders = <<>>
    /\ txs = <<>>
    /\ pc = [p \in Procs |-> "idle"]
    /\ call = [p \in Procs |-> NoCall]
    /\ cart_items = [p \in Procs |-> <<>>]
    /\ idx = [p \in Procs |-> 0]
    /\ order = [p \in Procs |-> NoOrder]
    /\ total_amount = [p \in Procs |-> 0]
    /\ wstock = [p \in Procs |-> NoWrites]
    /\ ptx = [p \in Procs |-> NoTx]
    /\ product = [p \in Procs |-> NoProduct]
    /\ cart_item = [p \in Procs |-> NoCartItem]
    /\ result = [p \in Procs |-> NoResult]

\* mutant of CommitStock: the stock writes of the order are not committed
CommitStockNone(w) == stock_quantity

\* the committed stock after the stock writes w of a transaction
CommitStock(w) ==
    [pr \in Products |-> IF pr \in DOMAIN w THEN w[pr] ELSE stock_quantity[pr]]

\* mutant of RollbackStock: the stock writes of a failed call stay
RollbackStockKept(w) == CommitStock(w)

\* the committed stock after a transaction with the stock writes w is rolled
\* back
RollbackStock(w) == stock_quantity

\* leaving the atomic block by an exception: every uncommitted write of the
\* request is discarded, its row locks are released
RollbackWith(p, status, errors) ==
    /\ pc' = [pc EXCEPT ![p] = "idle"]
    /\ call' = [call EXCEPT ![p] = NoCall]
    /\ cart_items' = [cart_items EXCEPT ![p] = <<>>]
    /\ idx' = [idx EXCEPT ![p] = 0]
    /\ order' = [order EXCEPT ![p] = NoOrder]
    /\ total_amount' = [total_amount EXCEPT ![p] = 0]
    /\ wstock' = [wstock EXCEPT ![p] = NoWrites]
    /\ ptx' = [ptx EXCEPT ![p] = NoTx]
    /\ result' = [result EXCEPT ![p] =
                     [NoResult EXCEPT !.status = status,
                                      !.rolled_back = Cardinality(DOMAIN wstock[p]),
                                      !.errors = errors]]
    /\ stock_quantity' = RollbackStock(wstock[p])
    /\ UNCHANGED <<is_available, price, cart, orders, txs, product, cart_item>>

\* the same for an exception whose message names no product
Rollback(p, status) == RollbackWith(p, status, <<>>)

\* ------------------------------------ OrderService.create_order_from_cart
\* the call enters the atomic block
BeginOrder(p, u) ==
    /\ pc[p] = "idle"
    /\ Len(orders) + OrderCalls < MaxOrders
    /\ pc' = [pc EXCEPT ![p] = "validate_exists"]
    /\ call' = [call EXCEPT ![p] = [NoCall EXCEPT !.op = "order", !.user = u]]
    /\ result' = [result EXCEPT ![p] = NoResult]
    /\ UNCHANGED <<dbvars, locvars>>

\* mutant of ValidateExists: validate_cart without the test for an empty cart
ValidateExistsSkipped(p) ==
    /\ pc[p] = "validate_exists"
    /\ pc' = [pc EXCEPT ![p] = "validate_items"]
    /\ UNCHANGED <<dbvars, locvars, call, result>>

\* CartService.validate_cart, first query: cart_items.exists()
ValidateExists(p) ==
    /\ pc[p] = "validate_exists"
    /\ IF cart[call[p].user] = <<>>
       THEN Rollback(p, "EmptyCart")
       ELSE /\ pc' = [pc EXCEPT ![p] = "validate_items"]
            /\ UNCHANGED <<dbvars, locvars, call, result>>

\* one cart line passes validate_cart
LineValid(line) ==
    /\ is_available[line.product]
    /\ ~(stock_quantity[line.product] < line.quantity)

\* mutant of LineError: the message gives the quantity of the cart line as
\* the available quantity
LineErrorNamesQuantity(line) ==
    IF ~is_available[line.product]
    THEN [error |-> "Unavailable", product |-> line.product]
    ELSE IF stock_quantity[line.product] < line.quantity
    THEN [error |-> "InsufficientStock", product |-> line.product,
          quantity |-> line.quantity, available |-> line.quantity]
    ELSE [error |-> "none", product |-> line.product]

\* what validate_cart appends to errors for one cart line: the product is
\* not available, or (elif) the line asks for more than the stock - that
\* message gives the quantity in the cart and the available quantity
LineError(line) ==
    IF ~is_available[line.product]
    THEN [error |-> "Unavailable", product |-> line.product]
    ELSE IF stock_quantity[line.product] < line.quantity
    THEN [error |-> "InsufficientStock", product |-> line.product,
          quantity |-> line.quantity, available |-> stock_quantity[line.product]]
    ELSE [error |-> "none", product |-> line.product]

IsError(e) == e.error # "none"

\* the list errors of validate_cart
validate_cart(u) ==
    SelectSeq([i \in 1..Len(cart[u]) |-> LineError(cart[u][i])], IsError)

\* CartService.validate_cart, second query: the loop over the cart lines
\* joined with their products
ValidateItems(p) ==
    /\ pc[p] = "validate_items"
    /\ LET c == cart[call[p].user]
       IN IF \E i \in 1..Len(c) : ~LineValid(c[i])
          THEN RollbackWith(p, "InvalidCart", validate_cart(call[p].user))
          ELSE /\ pc' = [pc EXCEPT ![p] = "get_cart"]
               /\ UNCHANGED <<dbvars, locvars, call, result>>

\* CartService.get_cart as list(...) evaluates it: the cart lines of the
\* user, each with the product row read by the same SELECT
get_cart(u) ==
    [i \in 1..Len(cart[u]) |->
        [product |-> cart[u][i].product,
         quantity |-> cart[u][i].quantity,
         stock_quantity |-> stock_quantity[cart[u][i].product],
         price |-> price[cart[u][i].product]]]

\* mutant of GetCart: an empty cart is not refused
GetCartUnchecked(p) ==
    /\ pc[p] = "get_cart"
    /\ LET items == get_cart(call[p].user)
       IN /\ cart_items' = [cart_items EXCEPT ![p] = items]
          /\ total_amount' = [total_amount EXCEPT ![p] = 0]
          /\ order' = [order EXCEPT ![p] =
                         [user |-> call[p].user, total_amount |-> 0,
                          status |-> "Pending", items |-> <<>>,
                          delivery_address |-> ""]]
          /\ idx' = [idx EXCEPT ![p] = 1]
          /\ pc' = [pc EXCEPT ![p] = IF items = <<>> THEN "finish" ELSE "items"]
          /\ UNCHANGED <<dbvars, call, result, wstock, ptx, product, cart_item>>

\* _create_order_from_cart_python up to Order.objects.create
GetCart(p) ==
    /\ pc[p] = "get_cart"
    /\ LET items == get_cart(call[p].user)
       IN IF items = <<>>
          THEN Rollback(p, "EmptyCart")
          ELSE /\ cart_items' = [cart_items EXCEPT ![p] = items]
               /\ total_amount' = [total_amount EXCEPT ![p] = 0]
               /\ order' = [order EXCEPT ![p] =
                              [user |-> call[p].user, total_amount |-> 0,
                               status |-> "Pending", items |-> <<>>,
                               delivery_address |-> ""]]
               /\ idx' = [idx EXCEPT ![p] = 1]
               /\ pc' = [pc EXCEPT ![p] = "items"]
               /\ UNCHANGED <<dbvars, call, result, wstock, ptx, product, cart_item>>

\* mutant of NewStock: the UPDATE decrements the stock the row holds when
\* the statement runs, without a second check
NewStockFromRow(item) == stock_quantity[item.product] - item.quantity

\* mutant of NewStock: the UPDATE writes the quantity it read
NewStockUnchanged(item) == item.stock_quantity

\* the value the UPDATE of products.stock_quantity writes for a cart line
NewStock(item) == item.stock_quantity - item.quantity

\* mutant of Subtotal: the price is read again from the product row
SubtotalLivePrice(item) == price[item.product] * item.quantity

\* subtotal = price * item.quantity, price being the price read with the cart
Subtotal(item) == item.price * item.quantity

\* one pass of the for loop: the stock check, OrderItem.objects.create and
\* Product.objects.filter(pk=...).update(stock_quantity=...); the UPDATE
\* waits while another transaction holds the row lock of the product
Item(p) ==
    /\ pc[p] = "items"
    /\ LET item == cart_items[p][idx[p]]
       IN IF item.stock_quantity < item.quantity
          THEN RollbackWith(p, "InsufficientStock",
                            <<[error |-> "InsufficientStock",
                               product |-> item.product,
                               quantity |-> item.quantity,
                               available |-> item.stock_quantity]>>)
          ELSE /\ LockHolder(item.product) \in {0, p}
               /\ order' = [order EXCEPT ![p].items =
                              Append(@, [product |-> item.product,
                                         quantity |-> item.quantity,
                                         price_at_purchase |-> item.price])]
               /\ total_amount' = [total_amount EXCEPT ![p] = @ + Subtotal(item)]
               /\ wstock' = [wstock EXCEPT ![p] =
                                [pr \in DOMAIN @ \cup {item.product} |->
                                    IF pr = item.product THEN NewStock(item)
                                    ELSE @[pr]]]
               /\ idx' = [idx EXCEPT ![p] = @ + 1]
               /\ pc' = [pc EXCEPT ![p] =
                            IF idx[p] = Len(cart_items[p]) THEN "finish"
                            ELSE "items"]
               /\ UNCHANGED <<dbvars, call, result, cart_items, ptx, product, cart_item>>

\* mutant of DeleteCart: the DELETE without the filter on the user
DeleteCartAll(u) == [v \in Users |-> <<>>]

\* the cart of user u after CartItem.objects.filter(user=user).delete()
DeleteCart(u) == [cart EXCEPT ![u] = <<>>]

\* the end of the call: order.total_amount is saved, the cart rows of the
\* user are deleted, the log row is written and the atomic block commits.
\* The DELETE and the commit are one step: the rows the DELETE removed stay
\* locked until the commit, and a row added in between survives like a row
\* added after the commit.
Finish(p) ==
    /\ pc[p] = "finish"
    /\ orders' = Append(orders, [order[p] EXCEPT !.total_amount = total_amount[p]])
    /\ stock_quantity' = CommitStock(wstock[p])
    /\ cart' = DeleteCart(call[p].user)
    /\ result' = [result EXCEPT ![p] =
                     [NoResult EXCEPT !.status = "created",
                                      !.order = Len(orders) + 1,
                                      !.total_amount = total_amount[p]]]
    /\ pc' = [pc EXCEPT ![p] = "idle"]
    /\ call' = [call EXCEPT ![p] = NoCall]
    /\ cart_items' = [cart_items EXCEPT ![p] = <<>>]
    /\ idx' = [idx EXCEPT ![p] = 0]
    /\ order' = [order EXCEPT ![p] = NoOrder]
    /\ total_amount' = [total_amount EXCEPT ![p] = 0]
    /\ wstock' = [wstock EXCEPT ![p] = NoWrites]
    /\ UNCHANGED <<is_available, price, txs, ptx, product, cart_item>>

\* the request p waits for (0: it does not wait): the holder of the row
\* lock its UPDATE needs
WaitsFor(p) ==
    IF pc[p] = "items"
    THEN LET item == cart_items[p][idx[p]]
         IN IF item.stock_quantity < item.quantity THEN 0
            ELSE IF LockHolder(item.product) = p THEN 0
            ELSE LockHolder(item.product)
    ELSE 0

RECURSIVE WaitReaches(_, _, _)
WaitReaches(q, p, n) ==
    IF q = 0 \/ n = 0 THEN FALSE
    ELSE WaitsFor(q) = p \/ WaitReaches(WaitsFor(q), p, n - 1)

\* two or more transactions wait for each other's product rows: PostgreSQL
\* ends one of them with an error, which leaves the atomic block through the
\* except branch of _create_order_from_cart_python
DeadlockAbort(p) ==
    /\ pc[p] = "items"
    /\ WaitReaches(p, p, NumProcs)
    /\ Rollback(p, "Error")

\* an unexpected error of a statement inside the atomic block of
\* create_order_from_cart (after the order row was inserted)
OrderDbError(p) ==
    /\ pc[p] \in {"items", "finish"}
    /\ Rollback(p, "Error")

\* the HTTP status create_order_view answers with: 201 for the created
\* order, 400 for a ValueError of the service; any other exception is not
\* caught by the view and becomes a 500
create_order_view(r) ==
    IF r.status = "created" THEN 201
    ELSE IF r.status \in ValueErrors THEN 400
    ELSE 500

\* ------------------------------------------------- the cart and catalog
\* the primary key of a new cart_items row of user u: a value no row of the
\* cart and no CartItem instance of a running request carries
ItemIdsInUse(u) ==
    {cart[u][i].id : i \in 1..Len(cart[u])}
       \cup {cart_item[p].id : p \in {q \in Procs : call[q].user = u}}
NewItemId(u) ==
    CHOOSE n \in 1..(Len(cart[u]) + NumProcs + 1) :
       /\ n \notin ItemIdsInUse(u)
       /\ \A k \in 1..(n - 1) : k \in ItemIdsInUse(u)

\* CartService.add_to_cart, run without another request in between
AddToCart(u, pr, q) ==
    /\ is_available[pr]
    /\ stock_quantity[pr] >= q
    /\ IF pr \in CartProducts(u)
       THEN LET i == CartIndex(u, pr)
                new_quantity == cart[u][i].quantity + q
            IN /\ ~(stock_quantity[pr] < new_quantity)
               /\ cart' = [cart EXCEPT ![u][i].quantity = new_quantity]
       ELSE cart' = [cart EXCEPT ![u] =
                        <<[id |-> NewItemId(u), product |-> pr,
                           quantity |-> q]>> \o @]
    /\ UNCHANGED <<stock_quantity, is_available, price, orders, txs, pc, call,
                   result, locvars>>

\* ------------------------------------------ the requests of CartService
InCartCall(p) == call[p].op \in {"add", "update"}

\* the position of the row with primary key id in the cart of u (0: no row)
ItemIndex(u, id) ==
    IF \E i \in 1..Len(cart[u]) : cart[u][i].id = id
    THEN CHOOSE i \in 1..Len(cart[u]) : cart[u][i].id = id
    ELSE 0

\* the position of the row of product pr in the cart of u (0: no row)
ProductIndex(u, pr) ==
    IF pr \in CartProducts(u) THEN CartIndex(u, pr) ELSE 0

\* the call returns or raises: the atomic block commits or rolls back, the
\* instances are dropped; status is "added" or "updated" for a return,
\* "ProductUnavailable", "InsufficientStock", "CartItemNotFound" or
\* "InvalidQuantity" for a ValueError, "Error" for a DatabaseError
EndCartCall(p, status) ==
    /\ pc' = [pc EXCEPT ![p] = "idle"]
    /\ call' = [call EXCEPT ![p] = NoCall]
    /\ product' = [product EXCEPT ![p] = NoProduct]
    /\ cart_item' = [cart_item EXCEPT ![p] = NoCartItem]
    /\ result' = [result EXCEPT ![p] = [NoResult EXCEPT !.status = status]]
    /\ UNCHANGED <<stock_quantity, is_available, price, orders, txs,
                   cart_items, idx, order, total_amount, wstock, ptx>>

\* a request calls CartService.add_to_cart(user, product_id, quantity)
BeginAdd(p, u, pr, q) ==
    /\ pc[p] = "idle"
    /\ pc' = [pc EXCEPT ![p] = "add_check"]
    /\ call' = [call EXCEPT ![p] =
                   [NoCall EXCEPT !.op = "add", !.user = u,
                                  !.product_id = pr, !.quantity = q]]
    /\ result' = [result EXCEPT ![p] = NoResult]
    /\ UNCHANGED <<dbvars, locvars>>

\* ProductService.check_availability(product_id, quantity) and the two
\* ValueErrors of add_to_cart that follow it
AddCheck(p) ==
    /\ pc[p] = "add_check"
    /\ LET pr == call[p].product_id
       IN IF ~is_available[pr]
          THEN EndCartCall(p, "ProductUnavailable") /\ UNCHANGED cart
          ELSE IF ~(stock_quantity[pr] >= call[p].quantity)
          THEN EndCartCall(p, "InsufficientStock") /\ UNCHANGED cart
          ELSE /\ product' = [product EXCEPT ![p] =
                                 [id |-> pr,
                                  stock_quantity |-> stock_quantity[pr],
                                  is_available |-> is_available[pr]]]
               /\ pc' = [pc EXCEPT ![p] = "add_get"]
               /\ UNCHANGED <<dbvars, call, result, cart_items, idx, order,
                              total_amount, wstock, ptx, cart_item>>

\* the SELECT of CartItem.objects.get_or_create(user, product_id)
AddGet(p) ==
    /\ pc[p] = "add_get"
    /\ LET i == ProductIndex(call[p].user, call[p].product_id)
       IN IF i # 0
          THEN /\ cart_item' = [cart_item EXCEPT ![p] = cart[call[p].user][i]]
               /\ pc' = [pc EXCEPT ![p] = "add_save"]
          ELSE /\ pc' = [pc EXCEPT ![p] = "add_insert"]
               /\ UNCHANGED cart_item
    /\ UNCHANGED <<dbvars, call, result, cart_items, idx, order,
                   total_amount, wstock, ptx, product>>

\* the INSERT of get_or_create: the new row is committed as add_to_cart
\* returns it; when another request has committed a row for the product
\* since the SELECT, the unique constraint refuses the INSERT and
\* get_or_create returns that row
AddInsert(p) ==
    /\ pc[p] = "add_insert"
    /\ LET u == call[p].user
           i == ProductIndex(u, call[p].product_id)
       IN IF i # 0
          THEN /\ cart_item' = [cart_item EXCEPT ![p] = cart[u][i]]
               /\ pc' = [pc EXCEPT ![p] = "add_save"]
               /\ UNCHANGED <<dbvars, call, result, cart_items, idx, order,
                              total_amount, wstock, ptx, product>>
          ELSE /\ cart' = [cart EXCEPT ![u] =
                              <<[id |-> NewItemId(u),
                                 product |-> call[p].product_id,
                                 quantity |-> call[p].quantity]>> \o @]
               /\ EndCartCall(p, "added")

\* the quantity cart_item.save writes
AddQuantity(p) == cart_item[p].quantity + call[p].quantity

\* mutant of AddSave: the new quantity of the row is not compared with the
\* stock
AddSaveUnchecked(p) ==
    /\ pc[p] = "add_save"
    /\ LET u == call[p].user
           i == ItemIndex(u, cart_item[p].id)
       IN IF i = 0
          THEN EndCartCall(p, "Error") /\ UNCHANGED cart
          ELSE /\ cart' = [cart EXCEPT ![u][i].quantity = AddQuantity(p)]
               /\ EndCartCall(p, "added")

\* the branch "if not created": the check of the new quantity against the
\* stock the call read and cart_item.save(update_fields=['quantity',
\* 'updated_at']), an UPDATE by primary key that raises DatabaseError when
\* the row is gone
AddSave(p) ==
    /\ pc[p] = "add_save"
    /\ LET u == call[p].user
           i == ItemIndex(u, cart_item[p].id)
       IN IF product[p].stock_quantity < AddQuantity(p)
          THEN EndCartCall(p, "InsufficientStock") /\ UNCHANGED cart
          ELSE IF i = 0
          THEN EndCartCall(p, "Error") /\ UNCHANGED cart
          ELSE /\ cart' = [cart EXCEPT ![u][i].quantity = AddQuantity(p)]
               /\ EndCartCall(p, "added")

\* a request calls CartService.update_cart_item(user, item_id, quantity)
BeginUpdate(p, u, id, q) ==
    /\ pc[p] = "idle"
    /\ pc' = [pc EXCEPT ![p] = "upd_get"]
    /\ call' = [call EXCEPT ![p] =
                   [NoCall EXCEPT !.op = "update", !.user = u,
                                  !.item_id = id, !.quantity = q]]
    /\ result' = [result EXCEPT ![p] = NoResult]
    /\ UNCHANGED <<dbvars, locvars>>

\* the SELECT of the row with its product and the three ValueErrors of
\* update_cart_item
UpdGet(p) ==
    /\ pc[p] = "upd_get"
    /\ LET u == call[p].user
           i == ItemIndex(u, call[p].item_id)
       IN IF i = 0
          THEN EndCartCall(p, "CartItemNotFound") /\ UNCHANGED cart
          ELSE IF call[p].quantity < 1
          THEN EndCartCall(p, "InvalidQuantity") /\ UNCHANGED cart
          ELSE IF stock_quantity[cart[u][i].product] < call[p].quantity
          THEN EndCartCall(p, "InsufficientStock") /\ UNCHANGED cart
          ELSE /\ cart_item' = [cart_item EXCEPT ![p] = cart[u][i]]
               /\ product' = [product EXCEPT ![p] =
                                 [id |-> cart[u][i].product,
                                  stock_quantity |->
                                      stock_quantity[cart[u][i].product],
                                  is_available |->
                                      is_available[cart[u][i].product]]]
               /\ pc' = [pc EXCEPT ![p] = "upd_save"]
               /\ UNCHANGED <<dbvars, call, result, cart_items, idx, order,
                              total_amount, wstock, ptx>>

\* cart_item.quantity = quantity; cart_item.save(update_fields=['quantity',
\* 'updated_at'])
UpdSave(p) ==
    /\ pc[p] = "upd_save"
    /\ LET u == call[p].user
           i == ItemIndex(u, cart_item[p].id)
       IN IF i = 0
          THEN EndCartCall(p, "Error") /\ UNCHANGED cart
          ELSE /\ cart' = [cart EXCEPT ![u][i].quantity = call[p].quantity]
               /\ EndCartCall(p, "updated")

\* CartService.remove_from_cart(user, item_id) for a row of the cart
RemoveFromCart(u, id) ==
    /\ ItemIndex(u, id) # 0
    /\ cart' = [cart EXCEPT ![u] =
                   LET i == ItemIndex(u, id)
                   IN SubSeq(@, 1, i - 1) \o SubSeq(@, i + 1, Len(@))]
    /\ UNCHANGED <<stock_quantity, is_available, price, orders, txs, pc, call,
                   result, locvars>>

\* ProductDetailAPIView PATCH of the price of a product
UpdateProductPrice(pr, v) ==
    /\ LockHolder(pr) = 0
    /\ price[pr] # v
    /\ price' = [price EXCEPT ![pr] = v]
    /\ UNCHANGED <<stock_quantity, is_available, cart, orders, txs, pc, call,
                   result, locvars>>

\* ProductDetailAPIView PATCH of is_available of a product
UpdateProductAvailable(pr, v) ==
    /\ LockHolder(pr) = 0
    /\ is_available[pr] # v
    /\ is_available' = [is_available EXCEPT ![pr] = v]
    /\ UNCHANGED <<stock_quantity, price, cart, orders, txs, pc, call,
                   result, locvars>>

\* ----------------------------------- Product.decrease_stock / increase_stock
InStockCall(p) == call[p].op = "stock"

\* Product.objects.get(pk=...): the instance the stock methods work on
GetProduct(p, pr) ==
    /\ pc[p] = "idle"
    /\ pc' = [pc EXCEPT ![p] = "stock_op"]
    /\ call' = [call EXCEPT ![p] = [NoCall EXCEPT !.op = "stock"]]
    /\ product' = [product EXCEPT ![p] =
                      [id |-> pr, stock_quantity |-> stock_quantity[pr],
                       is_available |-> is_available[pr]]]
    /\ result' = [result EXCEPT ![p] = NoResult]
    /\ UNCHANGED <<dbvars, cart_items, idx, order, total_amount, wstock, ptx, cart_item>>

\* the request is over: the instance is dropped
EndStockCall(p, status) ==
    /\ pc' = [pc EXCEPT ![p] = "idle"]
    /\ call' = [call EXCEPT ![p] = NoCall]
    /\ product' = [product EXCEPT ![p] = NoProduct]
    /\ result' = [result EXCEPT ![p] = [NoResult EXCEPT !.status = status]]

\* Product.decrease_stock(quantity) on the loaded instance; save() is an
\* UPDATE of the two columns by primary key, which waits for the row lock
DecreaseStock(p, quantity) ==
    /\ pc[p] = "stock_op"
    /\ LET self == product[p]
       IN IF self.stock_quantity < quantity
          THEN /\ EndStockCall(p, "InsufficientStock")
               /\ UNCHANGED <<dbvars, cart_items, idx, order, total_amount,
                              wstock, ptx, cart_item>>
          ELSE /\ LockHolder(self.id) = 0
               /\ stock_quantity' = [stock_quantity EXCEPT ![self.id] =
                                        self.stock_quantity - quantity]
               /\ is_available' = [is_available EXCEPT ![self.id] =
                                      IF self.stock_quantity - quantity = 0
                                      THEN FALSE ELSE self.is_available]
               /\ EndStockCall(p, "saved")
               /\ UNCHANGED <<price, cart, orders, txs, cart_items, idx, order,
                              total_amount, wstock, ptx, cart_item>>

\* Product.increase_stock(quantity) on the loaded instance
IncreaseStock(p, quantity) ==
    /\ pc[p] = "stock_op"
    /\ LET self == product[p]
       IN /\ self.stock_quantity + quantity <= MaxStock
          /\ LockHolder(self.id) = 0
          /\ stock_quantity' = [stock_quantity EXCEPT ![self.id] =
                                   self.stock_quantity + quantity]
          /\ is_available' = [is_available EXCEPT ![self.id] = TRUE]
          /\ EndStockCall(p, "saved")
          /\ UNCHANGED <<price, cart, orders, txs, cart_items, idx, order,
                         total_amount, wstock, ptx, cart_item>>

\* -------------------------------------------- PaymentService.create_payment
\* the amounts the modelled requests send for order o: the order total, one
\* unit (0.01) less and one unit more
PayAmounts(o) ==
    IF o \in 1..Len(orders)
    THEN {orders[o].total_amount - 1, orders[o].total_amount,
          orders[o].total_amount + 1}
    ELSE {1}

\* the call enters the atomic block
BeginPay(p, o, a, m) ==
    /\ pc[p] = "idle"
    /\ Len(txs) + PayCalls < MaxTxs
    /\ pc' = [pc EXCEPT ![p] = "pay_check"]
    /\ call' = [call EXCEPT ![p] = [NoCall EXCEPT !.op = "pay", !.order_id = o,
                                       !.amount = a, !.payment_method = m]]
    /\ result' = [result EXCEPT ![p] = NoResult]
    /\ UNCHANGED <<dbvars, locvars>>

\* the validation of the amount: Order.objects.get(id=order_id) and the
\* comparison float(amount) != float(order.total_amount)
PayCheck(p) ==
    /\ pc[p] = "pay_check"
    /\ LET o == call[p].order_id
       IN IF o \notin 1..Len(orders)
          THEN Rollback(p, "OrderNotFound")
          ELSE IF float(call[p].amount) # float(orders[o].total_amount)
          THEN Rollback(p, "AmountMismatch")
          ELSE /\ order' = [order EXCEPT ![p] = orders[o]]
               /\ pc' = [pc EXCEPT ![p] = "pay_insert"]
               /\ UNCHANGED <<dbvars, call, result, cart_items, idx,
                              total_amount, wstock, ptx, product, cart_item>>

\* the row Transaction.objects.create(...) inserts
NewTransaction(o, a, m) ==
    [order |-> o, amount |-> a, payment_method |-> m, status |-> "Success"]

\* mutant of PayInsert: the transactions row is committed by itself, as it
\* is without the atomic block
PayInsertAutocommit(p) ==
    /\ pc[p] = "pay_insert"
    /\ order' = [order EXCEPT ![p] = orders[call[p].order_id]]
    /\ txs' = Append(txs, NewTransaction(call[p].order_id, call[p].amount,
                                          call[p].payment_method))
    /\ pc' = [pc EXCEPT ![p] = "pay_save"]
    /\ UNCHANGED <<stock_quantity, is_available, price, cart, orders, call,
                   result, cart_items, idx, total_amount, wstock, ptx, product, cart_item>>

\* the second Order.objects.get(id=order_id) and Transaction.objects.create
PayInsert(p) ==
    /\ pc[p] = "pay_insert"
    /\ order' = [order EXCEPT ![p] = orders[call[p].order_id]]
    /\ ptx' = [ptx EXCEPT ![p] = NewTransaction(call[p].order_id, call[p].amount,
                                                 call[p].payment_method)]
    /\ pc' = [pc EXCEPT ![p] = "pay_save"]
    /\ UNCHANGED <<dbvars, call, result, cart_items, idx, total_amount, wstock, product, cart_item>>

\* order.status = 'Completed'; order.save(update_fields=['status']): the
\* UPDATE waits while another transaction holds the row lock of the order
PaySave(p) ==
    /\ pc[p] = "pay_save"
    /\ OrderLockHolder(call[p].order_id) = 0
    /\ order' = [order EXCEPT ![p].status = "Completed"]
    /\ pc' = [pc EXCEPT ![p] = "pay_commit"]
    /\ UNCHANGED <<dbvars, call, result, cart_items, idx, total_amount, wstock,
                   ptx, product, cart_item>>

\* mutant of CommitStatus: the status write of the order is lost
CommitStatusLost(o, st) == orders

\* the committed orders after the status write of create_payment on order o
CommitStatus(o, st) == [orders EXCEPT ![o].status = st]

\* the log row is written, the call returns (tx, 'Success') and the atomic
\* block commits the transactions row and the status of the order
PayCommit(p) ==
    /\ pc[p] = "pay_commit"
    /\ txs' = Append(txs, ptx[p])
    /\ orders' = CommitStatus(call[p].order_id, order[p].status)
    /\ result' = [result EXCEPT ![p] =
                     [NoResult EXCEPT !.status = "Success",
                                      !.order = call[p].order_id,
                                      !.tx = Len(txs) + 1]]
    /\ pc' = [pc EXCEPT ![p] = "idle"]
    /\ call' = [call EXCEPT ![p] = NoCall]
    /\ order' = [order EXCEPT ![p] = NoOrder]
    /\ ptx' = [ptx EXCEPT ![p] = NoTx]
    /\ UNCHANGED <<stock_quantity, is_available, price, cart, cart_items, idx,
                   total_amount, wstock, product, cart_item>>

\* an unexpected error of a statement inside the atomic block of
\* create_payment, before, between or after its two writes
PayDbError(p) ==
    /\ pc[p] \in {"pay_insert", "pay_save", "pay_commit"}
    /\ Rollback(p, "Error")

\* ------------------------------------------------------ create_payment_view
\* the role of a user: the last user is the administrator, the others are
\* buyers
role(u) == IF u = NumUsers THEN "Admin" ELSE "Buyer"

\* OrderService.get_order_by_id(order_id, user): the order (0: None); an
\* administrator sees every order, another user only their own
get_order_by_id(order_id, user) ==
    IF order_id \notin 1..Len(orders)
    THEN 0
    ELSE IF role(user) = "Admin"
    THEN order_id
    ELSE IF orders[order_id].user = user THEN order_id ELSE 0

\* a request POST /orders/{order_id}/pay/ of user u reaches the view; the
\* serializer has accepted its amount, payment method and delivery address
BeginPayView(p, u, o, a, m, d) ==
    /\ pc[p] = "idle"
    /\ Len(txs) + PayCalls < MaxTxs
    /\ pc' = [pc EXCEPT ![p] = "view_get"]
    /\ call' = [call EXCEPT ![p] =
                   [NoCall EXCEPT !.op = "pay", !.user = u, !.order_id = o,
                                  !.amount = a, !.payment_method = m,
                                  !.delivery_address = d]]
    /\ result' = [result EXCEPT ![p] = NoResult]
    /\ UNCHANGED <<dbvars, locvars>>

\* the response of create_payment_view when it returns before it calls the
\* service: "NotFound" (404), "Forbidden" (403) or "OrderNotPayable" (400);
\* nothing is written
PayViewRefuse(p, status) ==
    /\ result' = [result EXCEPT ![p] =
                     [NoResult EXCEPT !.status = status,
                                      !.order = call[p].order_id]]
    /\ pc' = [pc EXCEPT ![p] = "idle"]
    /\ call' = [call EXCEPT ![p] = NoCall]
    /\ UNCHANGED <<dbvars, locvars>>

\* mutant of PayViewGet: neither the query nor the view looks at the owner
\* of the order
PayViewGetAnyUser(p) ==
    /\ pc[p] = "view_get"
    /\ LET o == call[p].order_id
       IN IF o \notin 1..Len(orders)
          THEN PayViewRefuse(p, "NotFound")
          ELSE IF ~can_be_paid(orders[o])
          THEN PayViewRefuse(p, "OrderNotPayable")
          ELSE /\ order' = [order EXCEPT ![p] = orders[o]]
               /\ pc' = [pc EXCEPT ![p] = "view_save"]
               /\ UNCHANGED <<dbvars, call, result, cart_items, idx,
                              total_amount, wstock, ptx, product, cart_item>>

\* create_payment_view up to the write of the delivery address: the order is
\* read for the user of the request (404), its owner is compared with the
\* user (403) and can_be_paid() is asked (400)
PayViewGet(p) ==
    /\ pc[p] = "view_get"
    /\ LET o == call[p].order_id
           u == call[p].user
       IN IF get_order_by_id(o, u) = 0
          THEN PayViewRefuse(p, "NotFound")
          ELSE IF role(u) # "Admin" /\ orders[o].user # u
          THEN PayViewRefuse(p, "Forbidden")
          ELSE IF ~can_be_paid(orders[o])
          THEN PayViewRefuse(p, "OrderNotPayable")
          ELSE /\ order' = [order EXCEPT ![p] = orders[o]]
               /\ pc' = [pc EXCEPT ![p] = "view_save"]
               /\ UNCHANGED <<dbvars, call, result, cart_items, idx,
                              total_amount, wstock, ptx, product, cart_item>>

\* order.delivery_address = delivery_address; a Cancelled order becomes
\* Pending; order.save(update_fields=['delivery_address', 'status',
\* 'updated_at']) writes both fields of the order object the view read, in a
\* statement of its own; the view then calls PaymentService.create_payment
PayViewSave(p) ==
    /\ pc[p] = "view_save"
    /\ OrderLockHolder(call[p].order_id) = 0
    /\ LET st == IF order[p].status = "Cancelled" THEN "Pending"
                 ELSE order[p].status
       IN /\ orders' = [orders EXCEPT
                           ![call[p].order_id].delivery_address =
                               call[p].delivery_address,
                           ![call[p].order_id].status = st]
          /\ order' = [order EXCEPT ![p].delivery_address =
                                        call[p].delivery_address,
                                    ![p].status = st]
    /\ pc' = [pc EXCEPT ![p] = "pay_check"]
    /\ UNCHANGED <<stock_quantity, is_available, price, cart, txs, call,
                   result, cart_items, idx, total_amount, wstock, ptx, product, cart_item>>


\* update_order_status_view: the UPDATE of the status waits for the row lock
UpdateOrderStatus(o, st) ==
    /\ o \in 1..Len(orders)
    /\ OrderLockHolder(o) = 0
    /\ orders[o].status # st
    /\ orders' = [orders EXCEPT ![o].status = st]
    /\ UNCHANGED <<stock_quantity, is_available, price, cart, txs, pc, call,
                   result, locvars>>

\* OrderDetailAPIView.update (administrators): the fields of OrderSerializer
\* that are not read-only are written from the request; items is read-only.
\* The values the modelled requests send:
OrderUpdates ==
    [field : {"total_amount"}, value : Prices]
       \cup [field : {"user"}, value : Users]
       \cup [field : {"status"}, value : StatusInputs]

\* mutant of UpdateOrder: the update also refreshes the lines of the order
\* from the live products
UpdateOrderRepriced(o, d) ==
    /\ o \in 1..Len(orders)
    /\ OrderLockHolder(o) = 0
    /\ orders[o][d.field] # d.value
    /\ LET items == orders[o].items
           repriced == [k \in 1..Len(items) |->
                           [product |-> items[k].product,
                            quantity |-> items[k].quantity,
                            price_at_purchase |-> price[items[k].product]]]
       IN orders' = [orders EXCEPT ![o] =
                        [[@ EXCEPT ![d.field] = d.value] EXCEPT !.items = repriced]]
    /\ UNCHANGED <<stock_quantity, is_available, price, cart, txs, pc, call,
                   result, locvars>>

UpdateOrder(o, d) ==
    /\ o \in 1..Len(orders)
    /\ OrderLockHolder(o) = 0
    /\ orders[o][d.field] # d.value
    /\ orders' = [orders EXCEPT ![o] = [@ EXCEPT ![d.field] = d.value]]
    /\ UNCHANGED <<stock_quantity, is_available, price, cart, txs, pc, call,
                   result, locvars>>

\* ------------------------------------------ PaymentService.refund_transaction
\* The database function refund_transaction(transaction_id) the service
\* calls, as its contract describes it: the transaction becomes Refunded,
\* its order becomes Refunded and every line of the order is released to the
\* stock (a release that brings a product from 0 to a positive stock makes
\* it purchasable again).
\* mutant of NotRefundable: the function refunds whatever it is given
NotRefundableNever(t) == FALSE

\* the function refuses a transaction whose status is not Success
NotRefundable(t) == txs[t].status # "Success"

RefundedTxs(t) == [txs EXCEPT ![t].status = "Refunded"]
RefundedOrders(o) == [orders EXCEPT ![o].status = "Refunded"]
ReleasedStock(o) ==
    [pr \in Products |-> stock_quantity[pr] + LinesQuantity(orders[o].items, pr)]
ReleasedAvailable(o) ==
    [pr \in Products |->
        IF stock_quantity[pr] = 0 /\ LinesQuantity(orders[o].items, pr) > 0
        THEN TRUE ELSE is_available[pr]]

\* refund_transaction_view up to the call of the service: the transaction
\* is read and refused when it does not exist (404) or cannot be refunded
\* (400)
RefundView(p, t) ==
    /\ pc[p] = "idle"
    /\ IF t \notin 1..Len(txs)
       THEN /\ result' = [result EXCEPT ![p] =
                            [NoResult EXCEPT !.status = "TransactionNotFound"]]
            /\ UNCHANGED <<dbvars, locvars, pc, call>>
       ELSE IF ~can_be_refunded(txs[t])
       THEN /\ result' = [result EXCEPT ![p] =
                            [NoResult EXCEPT !.status = "NotRefundable",
                                             !.tx = t]]
            /\ UNCHANGED <<dbvars, locvars, pc, call>>
       ELSE /\ pc' = [pc EXCEPT ![p] = "refund_call"]
            /\ call' = [call EXCEPT ![p] =
                          [NoCall EXCEPT !.op = "refund", !.transaction_id = t]]
            /\ result' = [result EXCEPT ![p] = NoResult]
            /\ UNCHANGED <<dbvars, locvars>>

\* PaymentService.refund_transaction: cursor.callproc and the commit of the
\* atomic block.  The function refuses a transaction that is not Success,
\* the exception leaves the atomic block; its updates wait for the row
\* locks of the order and of the products.
RefundCall(p) ==
    /\ pc[p] = "refund_call"
    /\ LET t == call[p].transaction_id
           o == txs[t].order
       IN IF NotRefundable(t)
          THEN Rollback(p, "NotRefundable")
          ELSE /\ OrderLockHolder(o) = 0
               /\ \A pr \in Products :
                     LinesQuantity(orders[o].items, pr) > 0 => LockHolder(pr) = 0
               /\ txs' = RefundedTxs(t)
               /\ orders' = RefundedOrders(o)
               /\ stock_quantity' = ReleasedStock(o)
               /\ is_available' = ReleasedAvailable(o)
               /\ result' = [result EXCEPT ![p] =
                                [NoResult EXCEPT !.status = "Refunded",
                                                 !.order = o, !.tx = t]]
               /\ pc' = [pc EXCEPT ![p] = "idle"]
               /\ call' = [call EXCEPT ![p] = NoCall]
               /\ UNCHANGED <<price, cart, locvars>>

\* ------------------------------------------------------- specifications
OrderStep(p) ==
    \/ \E u \in Users : BeginOrder(p, u)
    \/ ValidateExists(p)
    \/ ValidateItems(p)
    \/ GetCart(p)
    \/ Item(p)
    \/ Finish(p)

\* concurrent order creation on carts the buyers fill
Next ==
    \/ \E p \in Procs : OrderStep(p)
    \/ \E p \in Procs : DeadlockAbort(p)
    \/ \E p \in Procs : OrderDbError(p)
    \/ \E u \in Users, pr \in Products, q \in Quantities : AddToCart(u, pr, q)

Spec == Init /\ [][Next]_vars

AllIdle == \A p \in Procs : pc[p] = "idle"
Alone(p) == \A q \in Procs \ {p} : pc[q] = "idle"

\* one order creation at a time, while carts and prices change under it
SerialOrderStep(p) == Alone(p) /\ OrderStep(p)

NextCatalog ==
    \/ \E p \in Procs : SerialOrderStep(p)
    \/ \E u \in Users, pr \in Products, q \in Quantities : AddToCart(u, pr, q)
    \/ \E pr \in Products, v \in Prices : UpdateProductPrice(pr, v)

SpecCatalog == Init /\ [][NextCatalog]_vars

\* one request at a time: nothing else runs while a call is in progress
IdleAddToCart(u, pr, q) == AllIdle /\ AddToCart(u, pr, q)
IdleUpdateProductAvailable(pr, v) == AllIdle /\ UpdateProductAvailable(pr, v)

NextSolo ==
    \/ \E p \in Procs : SerialOrderStep(p)
    \/ \E u \in Users, pr \in Products, q \in Quantities : IdleAddToCart(u, pr, q)
    \/ \E pr \in Products, v \in BOOLEAN : IdleUpdateProductAvailable(pr, v)

SpecSolo == Init /\ [][NextSolo]_vars

\* concurrent order creation and stock operations on one contended product,
\* the first one, which every buyer puts into the cart
NextStock ==
    \/ \E p \in Procs : OrderStep(p)
    \/ \E u \in Users, q \in Quantities : AddToCart(u, PaidProduct, q)
    \/ \E p \in Procs : GetProduct(p, PaidProduct)
    \/ \E p \in Procs, q \in Quantities : DecreaseStock(p, q)
    \/ \E p \in Procs, q \in Quantities : IncreaseStock(p, q)

SpecStock == Init /\ [][NextStock]_vars

\* payments on orders that exist already, set up as the payment tests do
\* (Order.objects.create and OrderItem.objects.create): each buyer has one
\* Pending order with one line of one unit of the first product
InitOrders ==
    [u \in Users |->
        [user |-> u, total_amount |-> MaxPrice, status |-> "Pending",
         items |-> <<[product |-> PaidProduct, quantity |-> 1,
                      price_at_purchase |-> MaxPrice]>>,
         delivery_address |-> ""]]

InitPay ==
    /\ stock_quantity = [pr \in Products |-> InitStock]
    /\ is_available = [pr \in Products |-> TRUE]
    /\ price = [pr \in Products |-> InitPrice(pr)]
    /\ cart = [u \in Users |-> <<>>]
    /\ orders = InitOrders
    /\ txs = <<>>
    /\ pc = [p \in Procs |-> "idle"]
    /\ call = [p \in Procs |-> NoCall]
    /\ cart_items = [p \in Procs |-> <<>>]
    /\ idx = [p \in Procs |-> 0]
    /\ order = [p \in Procs |-> NoOrder]
    /\ total_amount = [p \in Procs |-> 0]
    /\ wstock = [p \in Procs |-> NoWrites]
    /\ ptx = [p \in Procs |-> NoTx]
    /\ product = [p \in Procs |-> NoProduct]
    /\ cart_item = [p \in Procs |-> NoCartItem]
    /\ result = [p \in Procs |-> NoResult]

NextPay ==
    \/ \E p \in Procs, o \in 1..(Len(orders) + 1), m \in MethodInputs :
          \E a \in PayAmounts(o) : BeginPay(p, o, a, m)
    \/ \E p \in Procs : PayCheck(p)
    \/ \E p \in Procs : PayInsert(p)
    \/ \E p \in Procs : PaySave(p)
    \/ \E p \in Procs : PayCommit(p)
    \/ \E p \in Procs : PayDbError(p)
    \/ \E o \in 1..Len(orders), st \in StatusInputs : UpdateOrderStatus(o, st)

SpecPay == InitPay /\ [][NextPay]_vars

\* the whole life of an order, one request at a time: the first buyer
\* fills the cart, the order is created, paid by card with its total and
\* refunded
PayStep(p) ==
    \/ \E o \in 1..Len(orders), m \in MethodInputs :
          BeginPay(p, o, orders[o].total_amount, m)
    \/ PayCheck(p)
    \/ PayInsert(p)
    \/ PaySave(p)
    \/ PayCommit(p)

RefundStep(p) ==
    \/ \E t \in 1..(Len(txs) + 1) : RefundView(p, t)
    \/ RefundCall(p)

\* a deployment with one worker: every request is served by the first one
Worker == CHOOSE p \in Procs : \A q \in Procs : p <= q
Buyer == CHOOSE u \in Users : \A v \in Users : u <= v

BuyerAddToCart(pr, q) == AllIdle /\ AddToCart(Buyer, pr, q)
BuyerOrderStep ==
    \/ BeginOrder(Worker, Buyer)
    \/ ValidateExists(Worker)
    \/ ValidateItems(Worker)
    \/ GetCart(Worker)
    \/ Item(Worker)
    \/ Finish(Worker)
CardPayStep ==
    \/ \E o \in 1..Len(orders) :
          BeginPay(Worker, o, orders[o].total_amount, "Card")
    \/ PayCheck(Worker)
    \/ PayInsert(Worker)
    \/ PaySave(Worker)
    \/ PayCommit(Worker)
WorkerRefundStep == RefundStep(Worker)

NextCycle ==
    \/ \E pr \in Products, q \in Quantities : BuyerAddToCart(pr, q)
    \/ BuyerOrderStep
    \/ CardPayStep
    \/ WorkerRefundStep

SpecCycle == Init /\ [][NextCycle]_vars

\* the later life of the first buyer's order of InitPay, one request at a
\* time: it is paid by card and refunded while administrators edit the
\* price of its product, its status and its other fields
BuyerOrder == CHOOSE o \in DOMAIN InitOrders : InitOrders[o].user = Buyer

BuyerPayStep ==
    \/ BeginPay(Worker, BuyerOrder, orders[BuyerOrder].total_amount, "Card")
    \/ PayCheck(Worker)
    \/ PayInsert(Worker)
    \/ PaySave(Worker)
    \/ PayCommit(Worker)

NextLife ==
    \/ BuyerPayStep
    \/ WorkerRefundStep
    \/ \E v \in Prices : UpdateProductPrice(PaidProduct, v)
    \/ \E st \in StatusInputs : UpdateOrderStatus(BuyerOrder, st)
    \/ \E d \in OrderUpdates : UpdateOrder(BuyerOrder, d)

SpecLife == InitPay /\ [][NextLife]_vars

\* concurrent payments and refunds on the orders of InitPay
NextRefund ==
    \/ \E p \in Procs : PayStep(p)
    \/ \E p \in Procs : RefundStep(p)

SpecRefund == InitPay /\ [][NextRefund]_vars

\* payment requests through create_payment_view on the orders of InitPay,
\* one request at a time, and changes of the status of the orders between
\* the requests
PayViewStep(p) ==
    \/ \E u \in Users, o \in 1..Len(orders), d \in AddressInputs :
          \E a \in PayAmounts(o) : BeginPayView(p, u, o, a, "Card", d)
    \/ PayViewGet(p)
    \/ PayViewSave(p)
    \/ PayCheck(p)
    \/ PayInsert(p)
    \/ PaySave(p)
    \/ PayCommit(p)

IdleUpdateOrderStatus(o, st) == AllIdle /\ UpdateOrderStatus(o, st)

NextPayView ==
    \/ PayViewStep(Worker)
    \/ \E o \in 1..Len(orders), st \in StatusInputs :
          IdleUpdateOrderStatus(o, st)

SpecPayView == InitPay /\ [][NextPayView]_vars


\* the cart of the first buyer under concurrent requests: products with
\* the largest stock, add_to_cart, update_cart_item and remove_from_cart,
\* and products taken off and put back on sale
InitCart ==
    /\ stock_quantity = [pr \in Products |-> MaxStock]
    /\ is_available = [pr \in Products |-> TRUE]
    /\ price = [pr \in Products |-> InitPrice(pr)]
    /\ cart = [u \in Users |-> <<>>]
    /\ orders = <<>>
    /\ txs = <<>>
    /\ pc = [p \in Procs |-> "idle"]
    /\ call = [p \in Procs |-> NoCall]
    /\ cart_items = [p \in Procs |-> <<>>]
    /\ idx = [p \in Procs |-> 0]
    /\ order = [p \in Procs |-> NoOrder]
    /\ total_amount = [p \in Procs |-> 0]
    /\ wstock = [p \in Procs |-> NoWrites]
    /\ ptx = [p \in Procs |-> NoTx]
    /\ product = [p \in Procs |-> NoProduct]
    /\ cart_item = [p \in Procs |-> NoCartItem]
    /\ result = [p \in Procs |-> NoResult]

\* the quantities the modelled update_cart_item requests send
UpdateQuantities == 0..(MaxStock + 1)

AddStep(p) ==
    \/ \E q \in Quantities : BeginAdd(p, Buyer, PaidProduct, q)
    \/ AddCheck(p)
    \/ AddGet(p)
    \/ AddInsert(p)
    \/ AddSave(p)

UpdateStep(p) ==
    \/ \E i \in 1..Len(cart[Buyer]), q \in UpdateQuantities :
          BeginUpdate(p, Buyer, cart[Buyer][i].id, q)
    \/ UpdGet(p)
    \/ UpdSave(p)

NextCart ==
    \/ \E p \in Procs : AddStep(p)
    \/ \E p \in Procs : UpdateStep(p)
    \/ \E i \in 1..Len(cart[Buyer]) : RemoveFromCart(Buyer, cart[Buyer][i].id)
    \/ \E v \in BOOLEAN : UpdateProductAvailable(PaidProduct, v)

SpecCart == InitCart /\ [][NextCart]_vars

\* the stock methods on the first product, called by concurrent requests,
\* while the product is taken off sale and put back on sale
NextStockOps ==
    \/ \E p \in Procs : GetProduct(p, PaidProduct)
    \/ \E p \in Procs, q \in 1..MaxStock : DecreaseStock(p, q)
    \/ \E p \in Procs, q \in 1..MaxStock : IncreaseStock(p, q)
    \/ \E v \in BOOLEAN : UpdateProductAvailable(PaidProduct, v)

SpecStockOps == Init /\ [][NextStockOps]_vars

\* ---------------------------------------------------------------- claims
\* the units of product pr on the lines of the committed orders in S
OrderedQuantity(S, pr) ==
    SumSeq([i \in 1..Len(orders) |->
               IF i \in S THEN LinesQuantity(orders[i].items, pr) ELSE 0])

AllOrders == 1..Len(orders)

\* C1: no overselling - for orders created by different buyers, the units
\* of a product on the created orders never add up to more than the stock
\* the product had at the start.
C1_NoOverselling ==
    \A pr \in Products : \A S \in SUBSET AllOrders :
        (\A i, j \in S : i # j => orders[i].user # orders[j].user)
            => OrderedQuantity(S, pr) <= InitStock

\* C2: stock conservation - once all create_order_from_cart calls have
\* finished, the stock of every product is the initial stock minus the
\* units of the product on the lines of the created orders.
C2_StockConservation ==
    AllIdle => \A pr \in Products :
        stock_quantity[pr] = InitStock - OrderedQuantity(AllOrders, pr)

SuccessTxs(o) == {i \in 1..Len(txs) : txs[i].order = o /\ txs[i].status = "Success"}

\* C3: at most one successful payment - an order never has more than one
\* transaction with status Success, however many create_payment calls with
\* the correct amount run for it.
C3_AtMostOneSuccess ==
    \A o \in AllOrders : Cardinality(SuccessTxs(o)) <= 1

\* C4: payable-state precondition - create_payment that finds its order in
\* a status other than Pending or Cancelled fails with an error at its
\* validation (and so creates no transaction and changes no status).
C4_NotPayableRejected ==
    [][\A p \in Procs :
          (/\ pc[p] = "pay_check"
           /\ pc'[p] # "pay_check"
           /\ call[p].order_id \in AllOrders
           /\ ~can_be_paid(orders[call[p].order_id]))
          => (/\ pc'[p] = "idle"
              /\ result'[p].status \in ValueErrors
              /\ txs' = txs
              /\ orders' = orders)]_vars

\* C5: amount-mismatch rejection - create_payment with an amount different
\* from the total of the order raises the amount error at its validation,
\* before it has written anything: no transaction row exists or is created
\* and the orders are left as they were.
C5_AmountMismatchRejected ==
    [][\A p \in Procs :
          (/\ pc[p] = "pay_check"
           /\ pc'[p] # "pay_check"
           /\ call[p].order_id \in AllOrders
           /\ call[p].amount # orders[call[p].order_id].total_amount)
          => (/\ ptx[p] = NoTx
              /\ pc'[p] = "idle"
              /\ result'[p].status = "AmountMismatch"
              /\ ptx'[p] = NoTx
              /\ txs' = txs
              /\ orders' = orders)]_vars

\* a call was rejected for its amount and no transaction exists
C5_Witness ==
    \E p \in Procs : result[p].status = "AmountMismatch" /\ txs = <<>>

\* C6: atomicity of order creation - every step of a create_order_from_cart
\* call other than its successful return, in particular the step by which
\* the call fails, leaves orders, order lines, stock and carts as committed
\* before.
C6_FailedOrderLeavesNothing ==
    [][\A p \in Procs :
          (/\ InOrderCall(p)
           /\ (pc'[p] # pc[p] \/ idx'[p] # idx[p])
           /\ result'[p].status # "created")
          => UNCHANGED dbvars]_vars

\* a call failed on a later line after an earlier line had been decremented
C6_Witness ==
    \E p \in Procs :
        /\ result[p].status = "InsufficientStock"
        /\ result[p].rolled_back > 0

\* C7: atomic payment bookkeeping - whenever a Success transaction becomes
\* visible, its order is Completed in the same state; no step (a failure
\* between the two writes included) exposes the transaction alone.
C7_PaymentWritesAtomic ==
    [][\A i \in 1..Len(txs') :
          (i > Len(txs) /\ txs'[i].status = "Success")
          => orders'[txs'[i].order].status = "Completed"]_vars

\* a payment was committed, another one failed inside its atomic block
C7_Witness ==
    /\ \E i \in 1..Len(txs) : txs[i].status = "Success"
    /\ \E p \in Procs : result[p].status = "Error"

\* the cart of user u fits the stock
CartFits(u) ==
    /\ cart[u] # <<>>
    /\ \A i \in 1..Len(cart[u]) :
          cart[u][i].quantity <= stock_quantity[cart[u][i].product]

CartAvailable(u) ==
    \A i \in 1..Len(cart[u]) : is_available[cart[u][i].product]

\* the quantity of product pr in the cart of user u
CartQuantity(u, pr) ==
    SumSeq([i \in 1..Len(cart[u]) |->
               IF cart[u][i].product = pr THEN cart[u][i].quantity ELSE 0])

\* the call of request p returns an order as C8 describes it
CreatedAsClaimed(p) ==
    LET u == call[p].user
        r == result'[p]
    IN /\ r.status = "created"
       /\ r.order = Len(orders')
       /\ Len(orders') = Len(orders) + 1
       /\ LET o == orders'[r.order]
          IN /\ o.status = "Pending"
             /\ o.user = u
             /\ Len(o.items) = Len(cart[u])
             /\ \A i \in 1..Len(cart[u]) :
                   /\ o.items[i].product = cart[u][i].product
                   /\ o.items[i].quantity = cart[u][i].quantity
                   /\ o.items[i].price_at_purchase = price[cart[u][i].product]
             /\ r.total_amount =
                   SumSeq([i \in 1..Len(cart[u]) |->
                              cart[u][i].quantity * price[cart[u][i].product]])
             /\ o.total_amount = r.total_amount
       /\ \A pr \in Products :
             stock_quantity'[pr] = stock_quantity[pr] - CartQuantity(u, pr)

\* C8 as stated: with nothing else running, a call for a cart whose lines
\* all fit the stock returns a Pending order of the buyer with one line per
\* cart line (same product and quantity, the product's price), and the
\* stock of each product is reduced by the ordered quantity.
C8_SoloOrderCreated_Stated ==
    [][\A p \in Procs :
          (InOrderCall(p) /\ pc'[p] = "idle" /\ CartFits(call[p].user))
          => CreatedAsClaimed(p)]_vars

\* C8 amended: the same for a cart whose lines all fit the stock and whose
\* products are all available (is_available).
C8_SoloOrderCreated ==
    [][\A p \in Procs :
          (/\ InOrderCall(p) /\ pc'[p] = "idle"
           /\ CartFits(call[p].user) /\ CartAvailable(call[p].user))
          => CreatedAsClaimed(p)]_vars

\* an order with two lines was returned
C8_Witness ==
    \E p \in Procs :
        /\ result[p].status = "created"
        /\ Len(orders[result[p].order].items) = 2

\* C9: order total invariant - every committed order has total_amount equal
\* to the sum of quantity * price_at_purchase over its lines.
C9_OrderTotal ==
    \A i \in AllOrders : orders[i].total_amount = LinesTotal(orders[i].items)

\* an order was committed with a line whose price is no longer the price of
\* the product
C9_Witness ==
    \E i \in AllOrders : \E k \in 1..Len(orders[i].items) :
        orders[i].items[k].price_at_purchase # price[orders[i].items[k].product]

\* C10: successful payment - create_payment with the order total on a
\* Pending order passes the validation and, unless a statement fails,
\* returns 'Success' with a new transaction of that order that has status
\* Success, the given payment method and the order total as amount; the
\* order is Completed when the call returns.
C10_SuccessfulPayment ==
    [][\A p \in Procs :
          LET o == call[p].order_id
          IN /\ (/\ pc[p] = "pay_check" /\ pc'[p] # "pay_check"
                 /\ o \in AllOrders
                 /\ orders[o].status = "Pending"
                 /\ call[p].amount = orders[o].total_amount)
                => pc'[p] = "pay_insert"
             /\ (InPayCall(p) /\ pc[p] # "pay_check" /\ pc'[p] = "idle")
                => \/ result'[p].status = "Error"
                   \/ /\ result'[p].status = "Success"
                      /\ result'[p].tx = Len(txs')
                      /\ Len(txs') = Len(txs) + 1
                      /\ txs'[result'[p].tx] =
                            [order |-> o, amount |-> orders[o].total_amount,
                             payment_method |-> call[p].payment_method,
                             status |-> "Success"]
                      /\ orders'[o].status = "Completed"]_vars

\* a payment by the second method returned Success and its order is
\* Completed
C10_Witness ==
    \E p \in Procs :
        /\ result[p].status = "Success"
        /\ txs[result[p].tx].payment_method = "Cash"
        /\ orders[result[p].order].status = "Completed"

\* C11: Completed implies exactly one Success transaction - in every state
\* reached by create_payment calls and status updates, an order whose
\* status is Completed has exactly one transaction with status Success.
C11_CompletedHasOneSuccess ==
    \A o \in AllOrders :
        orders[o].status = "Completed" => Cardinality(SuccessTxs(o)) = 1

\* the units of product pr released by the refunds made so far
RefundedQuantity(pr) ==
    SumSeq([t \in 1..Len(txs) |->
               IF txs[t].status = "Refunded"
               THEN LinesQuantity(orders[txs[t].order].items, pr) ELSE 0])

C13_RefundPrecondition ==
    [][/\ \A t \in 1..Len(txs) : txs[t].status # "Success" => txs'[t] = txs[t]
       /\ \A p \in Procs :
             /\ (result'[p] # result[p] /\ result'[p].status = "Refunded")
                => /\ txs[result'[p].tx].status = "Success"
                   /\ txs'[result'[p].tx].status = "Refunded"
             /\ (result'[p] # result[p] /\ result'[p].status = "NotRefundable")
                => UNCHANGED dbvars
             /\ (/\ pc[p] = "refund_call" /\ pc'[p] # "refund_call"
                 /\ txs[call[p].transaction_id].status # "Success")
                => /\ result'[p].status = "NotRefundable"
                   /\ UNCHANGED dbvars
       /\ \A pr \in Products :
             stock_quantity'[pr] = (InitStock + RefundedQuantity(pr))']_vars

\* two refunds of one transaction ran together: the view let both through,
\* one refunded it and the function refused the other
C13_Witness ==
    \E p, q \in Procs :
        /\ result[p].status = "Refunded"
        /\ result[q].status = "NotRefundable"
        /\ result[q].tx = 0

\* C14: stock is never negative - under every interleaving of
\* create_order_from_cart calls and Product.decrease_stock /
\* increase_stock calls, the stock_quantity of every product is >= 0.
C14_StockNeverNegative ==
    \A pr \in Products : stock_quantity[pr] >= 0

\* two orders were committed for more units of a product than it ever had
\* in stock at once, and a decrease_stock was refused
C14_Witness ==
    /\ \E pr \in Products : OrderedQuantity(AllOrders, pr) > MaxStock
    /\ \E p \in Procs : result[p].status = "InsufficientStock"

\* C15: purchasability flag follows stock - in every state reached through
\* order creation and the stock operations, a product whose stock_quantity
\* is 0 has is_available = false.
C15_FlagFollowsStock ==
    \A pr \in Products : stock_quantity[pr] = 0 => ~is_available[pr]

\* C16: empty cart - create_order_from_cart for a buyer with no cart lines
\* fails with the empty-cart error (HTTP 400 at create_order_view) at its
\* first check, before anything else ran: the call has read no cart line,
\* created no order, written no stock, and the database is unchanged.
C16_EmptyCartRejected ==
    [][\A p \in Procs :
          (/\ InOrderCall(p)
           /\ pc[p] = "validate_exists"
           /\ pc'[p] # pc[p]
           /\ cart[call[p].user] = <<>>)
          => /\ result'[p].status = "EmptyCart"
             /\ create_order_view(result'[p]) = 400
             /\ pc'[p] = "idle"
             /\ cart_items[p] = <<>> /\ cart_items'[p] = <<>>
             /\ order[p] = NoOrder /\ order'[p] = NoOrder
             /\ wstock[p] = NoWrites /\ wstock'[p] = NoWrites
             /\ UNCHANGED dbvars]_vars

\* a call was refused for its empty cart while another buyer's cart held a
\* line
C16_Witness ==
    \E p \in Procs :
        /\ result[p].status = "EmptyCart"
        /\ \E u \in Users : cart[u] # <<>>

\* the call of request p was refused and changed nothing
Rejected(p) ==
    /\ result'[p].status \in {"InvalidCart", "InsufficientStock"}
    /\ create_order_view(result'[p]) = 400
    /\ UNCHANGED dbvars

\* the error of the call of request p names product pr and its stock
NamesAvailable(p, pr) ==
    \E k \in 1..Len(result'[p].errors) :
        LET e == result'[p].errors[k]
        IN /\ e.error = "InsufficientStock"
           /\ e.product = pr
           /\ e.available = stock_quantity[pr]

\* C17 as stated: with nothing else running, a call whose cart has a line
\* asking for more than the stock of its product fails with an
\* insufficient-stock error that names the product and its available
\* quantity; a call whose cart has a line of an unavailable product is
\* rejected too.  Nothing is changed.
C17_InsufficientStockRejected_Stated ==
    [][\A p \in Procs :
          (InOrderCall(p) /\ pc'[p] = "idle")
          => \A i \in 1..Len(cart[call[p].user]) :
                LET line == cart[call[p].user][i]
                IN /\ line.quantity > stock_quantity[line.product]
                      => Rejected(p) /\ NamesAvailable(p, line.product)
                   /\ ~is_available[line.product] => Rejected(p)]_vars

\* C17 amended: the insufficient-stock error names the product and its
\* available quantity for every line of an available product that asks for
\* more than the stock; a line of an unavailable product is rejected with
\* the error that names the product as unavailable, whatever its stock.
C17_InsufficientStockRejected ==
    [][\A p \in Procs :
          (InOrderCall(p) /\ pc'[p] = "idle")
          => \A i \in 1..Len(cart[call[p].user]) :
                LET line == cart[call[p].user][i]
                IN /\ (/\ line.quantity > stock_quantity[line.product]
                       /\ is_available[line.product])
                      => Rejected(p) /\ NamesAvailable(p, line.product)
                   /\ ~is_available[line.product]
                      => /\ Rejected(p)
                         /\ \E k \in 1..Len(result'[p].errors) :
                               /\ result'[p].errors[k].error = "Unavailable"
                               /\ result'[p].errors[k].product = line.product]_vars

\* after a first buyer's order took the stock, the call of a second buyer
\* was refused for the same product, which is left with no stock
C17_Witness ==
    \E p \in Procs :
        /\ result[p].status = "InvalidCart"
        /\ \E k \in 1..Len(result[p].errors) :
              /\ result[p].errors[k].error = "InsufficientStock"
              /\ stock_quantity[result[p].errors[k].product] = 0
              /\ \E o \in AllOrders :
                    LinesQuantity(orders[o].items, result[p].errors[k].product) > 0

C19_HeaderImmutable ==
    [][\A o \in AllOrders :
          /\ orders'[o].total_amount = orders[o].total_amount
          /\ orders'[o].user = orders[o].user]_vars

C21_NoWaitCycle ==
    \A p \in Procs : ~WaitReaches(p, p, NumProcs)

\* C22: no silent loss of cart lines - the step by which
\* create_order_from_cart returns an order removes from the cart of the
\* buyer only lines that are lines of that order: a line added by
\* add_to_cart after the call read the cart is not deleted.
C22_NoCartLineLost ==
    [][\A p \in Procs :
          (/\ InOrderCall(p)
           /\ pc'[p] = "idle"
           /\ result'[p].status = "created")
          => LET u == call[p].user
                 o == orders'[result'[p].order]
             IN \A i \in 1..Len(cart[u]) :
                   (\A j \in 1..Len(cart'[u]) :
                        cart'[u][j].product # cart[u][i].product)
                   => \E k \in 1..Len(o.items) :
                         o.items[k].product = cart[u][i].product]_vars

\* C23: a payment request through create_payment_view that fails has no
\* effect on the order: no step of a request whose amount differs from the
\* total of the order (the request is refused for the mismatch) changes the
\* status or the delivery address of the order, whether the order was
\* Pending or Cancelled.
C23_FailedPaymentNoEffect ==
    [][\A p \in Procs :
          (/\ InPayCall(p)
           /\ call[p].order_id \in 1..Len(orders)
           /\ float(call[p].amount)
                 # float(orders[call[p].order_id].total_amount))
          => LET o == call[p].order_id
             IN /\ orders'[o].status = orders[o].status
                /\ orders'[o].delivery_address = orders[o].delivery_address]_vars

\* the order of the payment request of p and its owner's or an
\* administrator's right to pay it
PayOrder(p) == orders[call[p].order_id]
PayOwner(p) ==
    \/ role(call[p].user) = "Admin"
    \/ PayOrder(p).user = call[p].user

\* C24: a Cancelled order is revived by paying it: create_payment_view
\* accepts the request of its owner with the total of the order, and from
\* there every step of the request leads to the next one until the payment
\* is committed with one more transaction, a Success one, and the order
\* Completed; no step of the request changes the stock of a product.
C24_CancelledRevived ==
    [][\A p \in Procs :
          (/\ InPayCall(p)
           /\ float(call[p].amount) = float(PayOrder(p).total_amount)
           /\ pc'[p] # pc[p])
          => /\ stock_quantity' = stock_quantity
             /\ is_available' = is_available
             /\ (pc[p] = "view_get" /\ PayOrder(p).status = "Cancelled"
                 /\ PayOwner(p))
                => /\ pc'[p] = "view_save"
                   /\ order'[p].status = "Cancelled"
             /\ (pc[p] = "view_save" /\ order[p].status = "Cancelled")
                => /\ pc'[p] = "pay_check"
                   /\ PayOrder(p)'.status = "Pending"
             /\ pc[p] = "pay_check" => pc'[p] = "pay_insert"
             /\ pc[p] = "pay_insert" => pc'[p] = "pay_save"
             /\ pc[p] = "pay_save" => pc'[p] = "pay_commit"
             /\ pc[p] = "pay_commit"
                => /\ pc'[p] = "idle"
                   /\ result'[p].status = "Success"
                   /\ orders'[call[p].order_id].status = "Completed"
                   /\ txs' = Append(txs,
                                [order |-> call[p].order_id,
                                 amount |-> PayOrder(p).total_amount,
                                 payment_method |-> call[p].payment_method,
                                 status |-> "Success"])]_vars

\* the view has accepted the payment of a Cancelled order by its owner and
\* is about to make it Pending and to call the service
C24_Witness ==
    \E p \in Procs :
       /\ pc[p] = "view_save"
       /\ order[p].status = "Cancelled"
       /\ call[p].user = order[p].user
       /\ call[p].amount = order[p].total_amount

\* C28: only the owner pays an order: the request of a buyer who is not an
\* administrator for the order of another user is answered as not found or
\* forbidden; it records no transaction and changes no field of an order.
C28_OwnerOnly ==
    [][\A p \in Procs :
          (/\ pc[p] = "view_get"
           /\ pc'[p] # "view_get"
           /\ role(call[p].user) # "Admin"
           /\ PayOrder(p).user # call[p].user)
          => /\ pc'[p] = "idle"
             /\ result'[p].status \in {"NotFound", "Forbidden"}
             /\ txs' = txs
             /\ orders' = orders]_vars

\* a buyer was refused the payment of the order of another user
C28_Witness ==
    \E p \in Procs :
       /\ result[p].status = "NotFound"
       /\ result[p].order \in 1..Len(orders)
       /\ pc[p] = "idle"

\* the quantity of product pr in the cart c of one user (0: no line)
QuantityIn(c, pr) ==
    SumSeq([i \in 1..Len(c) |-> IF c[i].product = pr THEN c[i].quantity ELSE 0])

\* C25: cart line uniqueness - whatever add_to_cart, update_cart_item and
\* remove_from_cart calls run, one after the other or concurrently, a
\* buyer has at most one cart line per product, every line has a quantity
\* of at least 1, and every add_to_cart call that returns has added its
\* quantity to the quantity of the line of its product.
C25_CartLineUnique ==
    [][/\ \A u \in Users : \A i, j \in 1..Len(cart'[u]) :
             /\ cart'[u][i].product = cart'[u][j].product => i = j
             /\ cart'[u][i].quantity >= 1
       /\ \A p \in Procs :
             (/\ call[p].op = "add"
              /\ pc'[p] = "idle"
              /\ result'[p].status = "added")
             => QuantityIn(cart'[call[p].user], call[p].product_id)
                   = QuantityIn(cart[call[p].user], call[p].product_id)
                        + call[p].quantity]_vars

\* the cart call of p ends with this step, by an error
CartCallEnds(p) == InCartCall(p) /\ pc'[p] = "idle"
CartCallFails(p) ==
    CartCallEnds(p) /\ result'[p].status \notin {"added", "updated"}

\* C26: the quantity of a cart line is checked against the stock:
\* add_to_cart fails when its product is not available or has less stock
\* than the quantity asked for, and when the quantity the line would get
\* exceeds the stock the call read; update_cart_item fails when the new
\* quantity exceeds the stock the call read; a call that fails leaves the
\* cart as it was, and after a call that succeeds the quantity of the line
\* is at most the stock the call read.
C26_CartQuantityChecked ==
    [][\A p \in Procs :
          LET u == call[p].user
          IN /\ CartCallFails(p) => cart' = cart
             /\ (/\ pc[p] = "add_check"
                 /\ pc'[p] # pc[p]
                 /\ \/ ~is_available[call[p].product_id]
                    \/ stock_quantity[call[p].product_id] < call[p].quantity)
                => CartCallFails(p)
             /\ (/\ pc[p] = "add_save"
                 /\ pc'[p] # pc[p]
                 /\ product[p].stock_quantity
                       < cart_item[p].quantity + call[p].quantity)
                => CartCallFails(p)
             /\ (/\ pc[p] = "upd_get"
                 /\ pc'[p] # pc[p]
                 /\ ItemIndex(u, call[p].item_id) # 0
                 /\ stock_quantity[cart[u][ItemIndex(u, call[p].item_id)].product]
                       < call[p].quantity)
                => CartCallFails(p)
             /\ (CartCallEnds(p) /\ ~CartCallFails(p))
                => /\ product[p] # NoProduct
                   /\ QuantityIn(cart'[u], product[p].id) >= 1
                   /\ QuantityIn(cart'[u], product[p].id)
                         <= product[p].stock_quantity]_vars

\* a call was refused for the stock while the cart holds a line with the
\* whole stock of its product
C26_Witness ==
    \E p \in Procs :
       /\ pc[p] = "idle"
       /\ result[p].status = "InsufficientStock"
       /\ cart[Buyer] # <<>>
       /\ cart[Buyer][1].quantity = stock_quantity[cart[Buyer][1].product]

\* C27: no double checkout of one cart - when two create_order_from_cart
\* calls of one buyer run concurrently on one cart, at most one order is
\* created for its lines: a call returns an order only for lines that are
\* still in the cart of the buyer when it returns, and it removes them.
C27_NoDoubleCheckout ==
    [][\A p \in Procs :
          (/\ InOrderCall(p)
           /\ pc'[p] = "idle"
           /\ result'[p].status = "created")
          => LET u == call[p].user
                 o == orders'[result'[p].order]
             IN \A k \in 1..Len(o.items) :
                   o.items[k].product \in CartProducts(u)]_vars

\* C29: every committed order has lines - no order without lines and no
\* order with the provisional total 0 is ever visible, also when the cart
\* of the buyer is emptied between the validation and the read of the cart.
C29_OrderHasLines ==
    \A i \in AllOrders :
       /\ Len(orders[i].items) >= 1
       /\ orders[i].total_amount # 0

\* a call has validated the cart and is about to read it, and the cart has
\* been emptied in between
C29_Witness ==
    \E p \in Procs :
       /\ pc[p] = "get_cart"
       /\ cart[call[p].user] = <<>>

\* C30: increase_stock restores is_available only when the stock goes from
\* 0 to positive: on a product that was made unavailable while its stock
\* was positive, increase_stock(q) raises the stock by q and leaves
\* is_available false; decrease_stock(q) with q above the stock raises an
\* error and leaves stock_quantity and is_available as they were.
C30_IncreaseKeepsUnavailable ==
    [][\A p \in Procs, q \in 1..MaxStock :
          LET self == product[p]
          IN /\ (/\ IncreaseStock(p, q)
                 /\ ~self.is_available
                 /\ self.stock_quantity > 0)
                => /\ stock_quantity'[self.id] = self.stock_quantity + q
                   /\ is_available'[self.id] = FALSE
             /\ (/\ DecreaseStock(p, q)
                 /\ q > self.stock_quantity)
                => /\ result'[p].status = "InsufficientStock"
                   /\ stock_quantity' = stock_quantity
                   /\ is_available' = is_available]_vars

====
